---- MODULE Spec2Model ----
(***************************************************************************)
(* Debug-info emission of librustc_trans: src/librustc_trans/debuginfo/    *)
(* mod.rs.  One compilation unit (one CodegenCx with its optional          *)
(* CrateDebugContext), the FunctionDebugContext its driver currently       *)
(* holds, and the native DIBuilder seen through the calls made on it.      *)
(*                                                                         *)
(* Every public function of the file is one action; the private helpers    *)
(* are operators threading a record `cx` (the caches of CrateDebugContext, *)
(* the builder calls made so far by the running operation, the current     *)
(* debug location) through the statements in source order.                 *)
(***************************************************************************)
EXTENDS Integers, Sequences, FiniteSets, TLC

\* ------------------------------------------------------------------ bounds
\* finalize calls explored on one unit when the driver is unconstrained
MaxFinalize == 2
\* argument indices handed to declare_local: 1..MaxArgIndex
MaxArgIndex == 2
\* functions translated in one run of the signature specification
MaxCreated == 2
\* operations run on the unit of the end-to-end specification
MaxOperations == 4

\* ------------------------------------------------------- program constants
DW_TAG_auto_variable == 256
DW_TAG_arg_variable == 257
\* value of llvm::LLVMRustDebugMetadataVersion(), opaque to this file
LLVMRustDebugMetadataVersion == 3

\* ------------------------------------------------------------------- types
\* ty::Ty by identity: the variant (sty), a name for nominal and primitive
\* types, and the component types.
Ty(sty, name, elems) == [sty |-> sty, name |-> name, elems |-> elems]
TyI32 == Ty("TyInt", "i32", <<>>)
TyU8 == Ty("TyUint", "u8", <<>>)
TyUnit == Ty("TyTuple", "", <<>>)
TyPoint == Ty("TyAdt", "Point", <<>>)
TyBox == Ty("TyAdt", "Box", <<TyI32>>)
TyArray(ct, n) == Ty("TyArray", n, <<ct>>)
TyTuple(tys) == Ty("TyTuple", "", tys)
mk_imm_ptr(ct) == Ty("TyRawPtr", "const", <<ct>>)
TyWrapper == Ty("TyAdt", "Wrapper", <<TyU8>>)

\* AdtDef::is_box
is_box(t) == t.sty = "TyAdt" /\ t.name = "Box"

\* cx.layout_of(t).is_zst(): no storage.  The unit tuple, tuples and arrays
\* of zero-sized components.
RECURSIVE is_zst(_)
is_zst(t) ==
    CASE t.sty = "TyTuple" -> \A i \in 1..Len(t.elems) : is_zst(t.elems[i])
      [] t.sty = "TyArray" -> t.name = "0" \/ is_zst(t.elems[1])
      [] OTHER -> FALSE

\* compute_debuginfo_type_name(cx, t, qualified = true)
RECURSIVE compute_debuginfo_type_name(_)
JoinNames(tys, sep) ==
    LET RECURSIVE J(_)
        J(i) == IF i > Len(tys) THEN ""
                ELSE (IF i = 1 THEN "" ELSE sep)
                     \o compute_debuginfo_type_name(tys[i]) \o J(i + 1)
    IN J(1)
compute_debuginfo_type_name(t) ==
    CASE t.sty = "TyTuple" -> "(" \o JoinNames(t.elems, ", ") \o ")"
      [] t.sty = "TyArray" ->
            "[" \o compute_debuginfo_type_name(t.elems[1]) \o "; " \o t.name \o "]"
      [] t.sty = "TyRawPtr" ->
            "*" \o t.name \o " " \o compute_debuginfo_type_name(t.elems[1])
      [] t.sty = "TyAdt" /\ Len(t.elems) > 0 ->
            t.name \o "<" \o JoinNames(t.elems, ", ") \o ">"
      [] OTHER -> t.name

\* ------------------------------------------------------------------ inputs
\* Option<T> as a sequence of length 0 or 1
None == <<>>
Some(x) == <<x>>

DUMMY_SP == [dummy |-> TRUE, file |-> "", line |-> 0, col |-> 0]
Sp(file, line, col) == [dummy |-> FALSE, file |-> file, line |-> line, col |-> col]

\* span_start(cx, span): the file, line and column of the span's low end
span_start(span) == [file |-> span.file, line |-> span.line, col |-> span.col]

LOCAL_CRATE == 0

FnSig(abi, inputs, output) == [abi |-> abi, inputs |-> inputs, output |-> output]
NoGenerics == [parent |-> None, types |-> <<>>]

FreeFn == [is_method |-> FALSE, trait |-> FALSE, self_ty |-> TyUnit]
InherentImpl(self_ty) == [is_method |-> TRUE, trait |-> FALSE, self_ty |-> self_ty]
TraitImpl(self_ty) == [is_method |-> TRUE, trait |-> TRUE, self_ty |-> self_ty]

\* What create_function_debug_context reads of an Instance through the tcx:
\* attributes, body span, def key, impl, signature, generics and substs.
Instance(name, no_debug, span, parent, impl, sig, generics, substs) ==
    [name |-> name, no_debug |-> no_debug, span |-> span, krate |-> LOCAL_CRATE,
     parent |-> parent, impl |-> impl, sig |-> sig,
     generics |-> generics, substs |-> substs]

ImplKinds == {FreeFn, InherentImpl(TyPoint), TraitImpl(TyPoint), InherentImpl(TyBox)}

\* fn add(a: i32, b: i32) -> i32 at line 10, or a method fn get(self) at
\* line 20 of an impl
Shape(impl) ==
    IF impl.is_method
    THEN [name |-> "get", sig |-> FnSig("Rust", <<impl.self_ty>>, TyUnit), line |-> 20]
    ELSE [name |-> "add", sig |-> FnSig("Rust", <<TyI32, TyI32>>, TyI32), line |-> 10]

InstancesOf(impl) ==
    { Instance(Shape(impl).name, nd, sp, par, impl, Shape(impl).sig, NoGenerics, <<>>) :
        nd \in BOOLEAN,
        sp \in {DUMMY_SP, Sp("lib.rs", Shape(impl).line, 1)},
        par \in {None, Some(1)} }

\* fn id<T>(x: T) -> T at line 30, instantiated at T = u8
GenericInstance ==
    Instance("id", FALSE, Sp("lib.rs", 30, 1), Some(1), FreeFn,
             FnSig("Rust", <<TyU8>>, TyU8),
             [parent |-> None, types |-> <<"T">>], <<TyU8>>)

Instances == UNION {InstancesOf(impl) : impl \in ImplKinds} \cup {GenericInstance}

\* Functions by signature, generics and impl, each at its own line of
\* lib.rs with a lexical parent unless stated:
Plain(name, line, impl, sig, generics, substs) ==
    Instance(name, FALSE, Sp("lib.rs", line, 1), Some(1), impl, sig, generics, substs)
SignatureInstances ==
    {\* fn add(a: i32, b: i32) -> i32
     Plain("add", 10, FreeFn, FnSig("Rust", <<TyI32, TyI32>>, TyI32), NoGenerics, <<>>),
     \* fn log(x: u8)
     Plain("log", 12, FreeFn, FnSig("Rust", <<TyU8>>, TyUnit), NoGenerics, <<>>),
     \* fn main()
     Plain("main", 14, FreeFn, FnSig("Rust", <<>>, TyUnit), NoGenerics, <<>>),
     \* fn id<T>(x: T) -> T at T = u8
     GenericInstance,
     \* fn pair<A, B>(a: A, b: B) at A = u8, B = (i32, u8)
     Plain("pair", 32, FreeFn,
           FnSig("Rust", <<TyU8, TyTuple(<<TyI32, TyU8>>)>>, TyUnit),
           [parent |-> None, types |-> <<"A", "B">>],
           <<TyU8, TyTuple(<<TyI32, TyU8>>)>>),
     \* impl<T> Wrapper<T> { fn map<U>(self, u: U) -> U } at T = u8, U = i32
     Plain("map", 40, InherentImpl(TyWrapper),
           FnSig("Rust", <<TyWrapper, TyI32>>, TyI32),
           [parent |-> Some([parent |-> None, types |-> <<"T">>]), types |-> <<"U">>],
           <<TyU8, TyI32>>),
     \* a closure |a: i32, b: u8| -> i32 inside id<u8>: the substs carry the
     \* closure's own types after those of the enclosing function
     Plain("{{closure}}", 31, FreeFn,
           FnSig("RustCall", <<mk_imm_ptr(TyPoint), TyTuple(<<TyI32, TyU8>>)>>, TyI32),
           [parent |-> None, types |-> <<"T">>], <<TyU8, TyI32, TyUnit>>),
     \* extern "rust-call" fn call(a: ([u8; 4],))
     Plain("call", 50, FreeFn,
           FnSig("RustCall", <<TyTuple(<<TyArray(TyU8, "4")>>)>>, TyUnit),
           NoGenerics, <<>>),
     \* extern "rust-call" fn raw(a: i32, b: u8) -> i32
     Plain("raw", 52, FreeFn, FnSig("RustCall", <<TyI32, TyU8>>, TyI32), NoGenerics, <<>>),
     \* extern "rust-call" fn nullary()
     Plain("nullary", 54, FreeFn, FnSig("RustCall", <<>>, TyUnit), NoGenerics, <<>>),
     \* fn hash(a: [u8; 4], b: [(); 7], c: [i32; 0], d: (), e: i32) -> [u8; 4]
     Plain("hash", 60, FreeFn,
           FnSig("Rust", <<TyArray(TyU8, "4"), TyArray(TyUnit, "7"),
                           TyArray(TyI32, "0"), TyUnit, TyI32>>, TyArray(TyU8, "4")),
           NoGenerics, <<>>),
     \* methods fn get(self) of impl Point, impl Trait for Point,
     \* impl Box<i32> and impl *const i32
     Plain("get", 20, InherentImpl(TyPoint), FnSig("Rust", <<TyPoint>>, TyUnit),
           NoGenerics, <<>>),
     Plain("get", 22, TraitImpl(TyPoint), FnSig("Rust", <<TyPoint>>, TyUnit),
           NoGenerics, <<>>),
     Plain("get", 24, InherentImpl(TyBox), FnSig("Rust", <<TyBox>>, TyUnit),
           NoGenerics, <<>>),
     Plain("get", 26, InherentImpl(mk_imm_ptr(TyI32)),
           FnSig("Rust", <<mk_imm_ptr(TyI32)>>, TyUnit), NoGenerics, <<>>),
     \* the same without a lexical parent
     Instance("get", FALSE, Sp("lib.rs", 20, 1), None, InherentImpl(TyPoint),
              FnSig("Rust", <<TyPoint>>, TyUnit), NoGenerics, <<>>),
     Instance("get", FALSE, Sp("lib.rs", 22, 1), None, TraitImpl(TyPoint),
              FnSig("Rust", <<TyPoint>>, TyUnit), NoGenerics, <<>>),
     Instance("get", FALSE, Sp("lib.rs", 26, 1), None, InherentImpl(mk_imm_ptr(TyI32)),
              FnSig("Rust", <<mk_imm_ptr(TyI32)>>, TyUnit), NoGenerics, <<>>)}

\* session options: opts.debuginfo and target.options.is_like_*
DebugInfoLevels == {"NoDebugInfo", "LimitedDebugInfo", "FullDebugInfo"}
TargetOptions ==
    [is_like_osx : BOOLEAN, is_like_android : BOOLEAN, is_like_msvc : BOOLEAN]

\* inputs of declare_local
VariableKinds ==
    {[kind |-> "ArgumentVariable", index |-> i] : i \in 1..MaxArgIndex}
    \cup {[kind |-> "LocalVariable", index |-> 0],
          [kind |-> "CapturedVariable", index |-> 0]}
VariableAccesses ==
    {[access |-> "DirectVariable", address_operations |-> <<>>],
     [access |-> "IndirectVariable", address_operations |-> <<6>>]}
VariableTypes == {TyI32, TyPoint}
VariableSpans == {Sp("lib.rs", 11, 5)}
Scopes == {"fn_scope"}

\* ------------------------------------------------------------------- state
VARIABLES
    debuginfo,        \* cx.sess().opts.debuginfo
    target,           \* cx.sess().target.target.options
    created_files,    \* CrateDebugContext.created_files (keys)
    type_map,         \* CrateDebugContext.type_map: type -> node
    namespace_map,    \* CrateDebugContext.namespace_map (keys)
    composite_types_completed,
    di_type_nodes,    \* DIBuilder: how many nodes it created for each type
    builder,          \* DIBuilder life cycle
    module_flags,     \* flags added to cx.llmod
    gdb_section,      \* the .debug_gdb_scripts global is in cx.llmod
    debug_loc,        \* the IR builder's current debug location
    dbg_context,      \* the FunctionDebugContext the driver holds
    last,             \* the operation that ran last: input, outcome, calls
    history           \* the operations run on the unit so far, where kept

vars == <<debuginfo, target, created_files, type_map, namespace_map,
          composite_types_completed, di_type_nodes, builder, module_flags,
          gdb_section, debug_loc, dbg_context, last, history>>

EmptyMap == [x \in {} |-> 0]
Extend(f, k, v) == [x \in DOMAIN f \cup {k} |-> IF x = k THEN v ELSE f[x]]

UnknownLocation == [known |-> FALSE, scope |-> "", line |-> 0, col |-> 0]
KnownLocation(scope, line, col) ==
    [known |-> TRUE, scope |-> scope, line |-> line, col |-> col]

\* cx.dbg_cx: Some exactly when the unit was built with debug info
dbg_cx_is_some == debuginfo # "NoDebugInfo"

\* The running operation's view of the CodegenCx: the caches of its
\* CrateDebugContext, its DIBuilder and module, the current debug location,
\* with the calls the operation has made so far (in order) and the nodes
\* type_metadata has handed it.
CX == [created_files |-> created_files, type_map |-> type_map,
       namespace_map |-> namespace_map,
       composite_types_completed |-> composite_types_completed,
       di_type_nodes |-> di_type_nodes, builder |-> builder,
       module_flags |-> module_flags, gdb_section |-> gdb_section,
       debug_loc |-> debug_loc, calls |-> <<>>, lookups |-> <<>>,
       bug |-> FALSE]

\* a call on the module or on the IR builder
Call(cx, c) == [cx EXCEPT !.calls = Append(@, c)]

\* utils::DIB(cx): a call on the unit's DIBuilder.  On a disposed builder
\* the call uses freed memory.
DIB(cx, c) ==
    [cx EXCEPT !.calls = Append(@, c),
               !.builder.dangling_use = @ \/ cx.builder.disposed > 0]

\* `let v = e; rest`: e is evaluated once and named
Then(v, rest(_)) == rest(v)

\* ---------------------------------------------------------------- metadata
\* metadata::file_metadata(cx, file_name, defining_crate): one DIFile per
\* (file name, crate), created on the first request.
file_metadata(cx, file_name, krate) ==
    LET key == <<file_name, krate>> IN
    IF key \in cx.created_files
    THEN [cx |-> cx, node |-> key]
    ELSE [cx |-> DIB([cx EXCEPT !.created_files = @ \cup {key}],
                     [fn |-> "create_file", key |-> key]),
          node |-> key]

\* the next node the builder creates for type t
FreshTypeNode(cx, t) ==
    [ty |-> t,
     nth |-> (IF t \in DOMAIN cx.di_type_nodes THEN cx.di_type_nodes[t] ELSE 0) + 1]

\* A mutant of set_members_of_composite_type that does not consult the
\* completed set.
set_members_of_composite_type_unchecked(cx, node) ==
    DIB([cx EXCEPT !.composite_types_completed = @ \cup {node}],
        [fn |-> "set_members", node |-> node])

\* metadata::set_members_of_composite_type(cx, composite_type_metadata, ..):
\* bug! on a node whose members were set already, else the node joins
\* composite_types_completed and the builder receives the members.
set_members_of_composite_type(cx, node) ==
    IF node \in cx.composite_types_completed
    THEN [cx EXCEPT !.bug = TRUE]
    ELSE DIB([cx EXCEPT !.composite_types_completed = @ \cup {node}],
             [fn |-> "set_members", node |-> node])

\* the builder creates `node`; a composite (ADT) node is created without
\* members, which are set next
CreateTypeNode(cx, node) ==
    Then(DIB([cx EXCEPT !.di_type_nodes = Extend(@, node.ty, node.nth)],
             [fn |-> "create_type", node |-> node]), LAMBDA created :
    IF node.ty.sty = "TyAdt"
    THEN set_members_of_composite_type(created, node)
    ELSE created)

Found(cx, t, node) ==
    [cx |-> [cx EXCEPT !.lookups = Append(@, [ty |-> t, node |-> node])],
     node |-> node]

\* A mutant of type_metadata that never consults the type-map.
type_metadata_uncached(cx, t) ==
    Then(FreshTypeNode(cx, t), LAMBDA node :
    Found([CreateTypeNode(cx, node) EXCEPT !.type_map = Extend(@, t, node)], t, node))

\* metadata::type_metadata(cx, t, span): the node of t, memoized by type
\* identity in the type-map.
type_metadata(cx, t) ==
    IF t \in DOMAIN cx.type_map
    THEN Found(cx, t, cx.type_map[t])
    ELSE Then(FreshTypeNode(cx, t), LAMBDA node :
         Found([CreateTypeNode(cx, node) EXCEPT !.type_map = Extend(@, t, node)],
               t, node))

\* namespace::item_namespace(cx, def_id): the scope of a definition, looked
\* up in, or created through, the namespace cache.
item_namespace(cx, def_id) ==
    IF def_id \in cx.namespace_map
    THEN [cx |-> cx, node |-> [scope |-> "namespace", of |-> def_id]]
    ELSE [cx |-> DIB([cx EXCEPT !.namespace_map = @ \cup {def_id}],
                     [fn |-> "create_namespace", def_id |-> def_id]),
          node |-> [scope |-> "namespace", of |-> def_id]]

\* source_loc::set_debug_location(bx, location)
set_debug_location(cx, loc) ==
    Call([cx EXCEPT !.debug_loc = loc],
         [fn |-> "set_current_debug_location", loc |-> loc])

\* ------------------------------------------------- FunctionDebugContext
NoContext ==
    [variant |-> "none", fn_metadata |-> [name |-> "", line |-> 0],
     source_locations_enabled |-> FALSE, defining_crate |-> LOCAL_CRATE]
\* A mutant of RegularContext born with source locations enabled.
RegularContext_enabled(fn_metadata, krate) ==
    [variant |-> "RegularContext", fn_metadata |-> fn_metadata,
     source_locations_enabled |-> TRUE, defining_crate |-> krate]
\* FunctionDebugContext::RegularContext(FunctionDebugContextData { .. })
RegularContext(fn_metadata, krate) ==
    [variant |-> "RegularContext", fn_metadata |-> fn_metadata,
     source_locations_enabled |-> FALSE, defining_crate |-> krate]
DebugInfoDisabled == [NoContext EXCEPT !.variant = "DebugInfoDisabled"]
FunctionWithoutDebugInfo == [NoContext EXCEPT !.variant = "FunctionWithoutDebugInfo"]

debuginfo_disabled_message == "debuginfo_disabled_message"
should_be_ignored_message == "should_be_ignored_message"

\* A mutant of get_ref that hands out the data of a suppressed function.
get_ref_ignores_suppressed(context) ==
    CASE context.variant = "DebugInfoDisabled" ->
            [bug |-> TRUE, message |-> debuginfo_disabled_message, data |-> NoContext]
      [] OTHER -> [bug |-> FALSE, message |-> "", data |-> context]

\* FunctionDebugContext::get_ref
get_ref(context) ==
    CASE context.variant = "RegularContext" ->
            [bug |-> FALSE, message |-> "", data |-> context]
      [] context.variant = "DebugInfoDisabled" ->
            [bug |-> TRUE, message |-> debuginfo_disabled_message, data |-> NoContext]
      [] context.variant = "FunctionWithoutDebugInfo" ->
            [bug |-> TRUE, message |-> should_be_ignored_message, data |-> NoContext]

\* ----------------------------------------- create_function_debug_context
NullNode == [ty |-> Ty("null", "", <<>>), nth |-> 0]

\* the replacement of an argument type on MSVC-like targets
msvc_argument_type(t) ==
    IF t.sty = "TyArray" /\ (t.elems[1] = TyU8 \/ is_zst(t.elems[1]))
    THEN mk_imm_ptr(t.elems[1])
    ELSE t

\* signature.extend(tys.iter().map(|t| type_metadata(cx, t))):
\* r is [cx, signature]
RECURSIVE extend_signature(_, _, _, _)
extend_signature(r, tys, msvc, i) ==
    IF i > Len(tys) THEN r
    ELSE Then(type_metadata(r.cx, IF msvc THEN msvc_argument_type(tys[i]) ELSE tys[i]),
              LAMBDA m :
         extend_signature([cx |-> m.cx, signature |-> Append(r.signature, m.node)],
                          tys, msvc, i + 1))

\* get_function_signature(cx, sig): [fatal, cx, signature]
get_function_signature(cx, level, is_like_msvc, sig) ==
    IF level = "LimitedDebugInfo"
    THEN [fatal |-> FALSE,
          cx |-> DIB(cx, [fn |-> "create_DIArray", elems |-> <<>>]),
          signature |-> <<>>]
    ELSE
    \* the return type, at index 0
    Then(IF sig.output.sty = "TyTuple" /\ Len(sig.output.elems) = 0
         THEN [cx |-> cx, signature |-> <<NullNode>>]
         ELSE Then(type_metadata(cx, sig.output), LAMBDA m :
                   [cx |-> m.cx, signature |-> <<m.node>>]), LAMBDA r0 :
    \* &sig.inputs()[..sig.inputs().len() - 1] with no input: the
    \* subtraction overflows (a panic with overflow checks, an out-of-range
    \* slice end usize::MAX without): fatal either way
    IF sig.abi = "RustCall" /\ Len(sig.inputs) = 0
    THEN [fatal |-> TRUE, cx |-> r0.cx, signature |-> r0.signature]
    ELSE
    Then(extend_signature(r0,
                          IF sig.abi = "RustCall"
                          THEN SubSeq(sig.inputs, 1, Len(sig.inputs) - 1)
                          ELSE sig.inputs,
                          is_like_msvc, 1), LAMBDA r1 :
    Then(IF sig.abi = "RustCall" /\ Len(sig.inputs) # 0
            /\ sig.inputs[Len(sig.inputs)].sty = "TyTuple"
         THEN extend_signature(r1, sig.inputs[Len(sig.inputs)].elems, FALSE, 1)
         ELSE r1, LAMBDA r2 :
    [fatal |-> FALSE,
     cx |-> DIB(r2.cx, [fn |-> "create_DIArray", elems |-> r2.signature]),
     signature |-> r2.signature])))

\* A mutant of get_type_parameter_names that lists the function's own
\* parameters before the enclosing ones.
RECURSIVE get_type_parameter_names_own_first(_)
get_type_parameter_names_own_first(generics) ==
    generics.types
    \o (IF generics.parent = None THEN <<>>
        ELSE get_type_parameter_names_own_first(generics.parent[1]))

\* get_type_parameter_names(cx, generics): the parent's names first
RECURSIVE get_type_parameter_names(_)
get_type_parameter_names(generics) ==
    (IF generics.parent = None THEN <<>>
     ELSE get_type_parameter_names(generics.parent[1]))
    \o generics.types

\* substs.types().zip(names).map(..) of get_template_parameters:
\* r is [cx, params]
RECURSIVE template_params(_, _, _, _, _)
template_params(r, tys, names, file, i) ==
    IF i > Len(tys) \/ i > Len(names) THEN r
    ELSE Then(type_metadata(r.cx, tys[i]), LAMBDA m :
         Then([fn |-> "create_template_type_parameter", name |-> names[i],
               ty |-> m.node, file |-> file], LAMBDA p :
         template_params([cx |-> DIB(m.cx, p), params |-> Append(r.params, p)],
                         tys, names, file, i + 1)))

\* A mutant of get_template_parameters that decorates the name where it
\* creates the parameter nodes: under full debug info only.
get_template_parameters_full_only(cx, level, generics, substs, file, name) ==
    IF Len(substs) = 0
    THEN [cx |-> DIB(cx, [fn |-> "create_DIArray", elems |-> <<>>]),
          name |-> name, params |-> <<>>]
    ELSE
    Then(IF level = "FullDebugInfo"
         THEN template_params([cx |-> cx, params |-> <<>>], substs,
                              get_type_parameter_names(generics), file, 1)
         ELSE [cx |-> cx, params |-> <<>>], LAMBDA r :
    [cx |-> DIB(r.cx, [fn |-> "create_DIArray", elems |-> r.params]),
     name |-> IF level = "FullDebugInfo"
              THEN name \o "<" \o JoinNames(substs, ",") \o ">"
              ELSE name,
     params |-> r.params])

\* get_template_parameters(cx, generics, substs, file_metadata, name):
\* [cx, name, params]
get_template_parameters(cx, level, generics, substs, file, name) ==
    IF Len(substs) = 0
    THEN [cx |-> DIB(cx, [fn |-> "create_DIArray", elems |-> <<>>]),
          name |-> name, params |-> <<>>]
    ELSE
    Then(IF level = "FullDebugInfo"
         THEN template_params([cx |-> cx, params |-> <<>>], substs,
                              get_type_parameter_names(generics), file, 1)
         ELSE [cx |-> cx, params |-> <<>>], LAMBDA r :
    [cx |-> DIB(r.cx, [fn |-> "create_DIArray", elems |-> r.params]),
     name |-> name \o "<" \o JoinNames(substs, ",") \o ">",
     params |-> r.params])

\* instance.substs.truncate_to(cx.tcx, generics): the substs of the
\* generics' own and inherited parameters
truncate_to(substs, generics) ==
    SubSeq(substs, 1, Len(get_type_parameter_names(generics)))

\* A mutant of get_containing_scope that does not ask whether the impl is
\* a trait impl.
get_containing_scope_any_impl(cx, instance) ==
    IF /\ instance.impl.is_method
       /\ instance.impl.self_ty.sty = "TyAdt"
       /\ ~is_box(instance.impl.self_ty)
    THEN Then(type_metadata(cx, instance.impl.self_ty), LAMBDA m :
              [fatal |-> FALSE, cx |-> m.cx, node |-> [scope |-> "type", of |-> m.node]])
    ELSE IF instance.parent = None
    THEN [fatal |-> TRUE, cx |-> cx, node |-> [scope |-> "none", of |-> 0]]
    ELSE Then(item_namespace(cx, [krate |-> instance.krate,
                                  index |-> instance.parent[1]]), LAMBDA ns :
              [fatal |-> FALSE, cx |-> ns.cx, node |-> ns.node])

\* get_containing_scope(cx, instance): [fatal, cx, node]
get_containing_scope(cx, instance) ==
    IF /\ instance.impl.is_method
       /\ ~instance.impl.trait
       /\ instance.impl.self_ty.sty = "TyAdt"
       /\ ~is_box(instance.impl.self_ty)
    THEN Then(type_metadata(cx, instance.impl.self_ty), LAMBDA m :
              [fatal |-> FALSE, cx |-> m.cx, node |-> [scope |-> "type", of |-> m.node]])
    ELSE IF instance.parent = None
    THEN [fatal |-> TRUE, cx |-> cx, node |-> [scope |-> "none", of |-> 0]]
    ELSE Then(item_namespace(cx, [krate |-> instance.krate,
                                  index |-> instance.parent[1]]), LAMBDA ns :
              [fatal |-> FALSE, cx |-> ns.cx, node |-> ns.node])

Result(outcome, cx, context) == [outcome |-> outcome, cx |-> cx, context |-> context]

\* create_function_debug_context from the containing scope on
create_after_checks(cx, level, is_like_msvc, instance) ==
    Then(get_containing_scope(cx, instance), LAMBDA scope :
    IF scope.fatal
    THEN Result("panic: get_containing_scope: missing parent?", scope.cx, NoContext)
    ELSE IF instance.span = DUMMY_SP
    THEN Result("FunctionWithoutDebugInfo", scope.cx, FunctionWithoutDebugInfo)
    ELSE
    Then(span_start(instance.span), LAMBDA loc :
    Then(file_metadata(scope.cx, loc.file, instance.krate), LAMBDA file :
    Then(get_function_signature(file.cx, level, is_like_msvc, instance.sig), LAMBDA sig :
    IF sig.fatal THEN Result("panic: get_function_signature", sig.cx, NoContext)
    ELSE
    Then(DIB(sig.cx, [fn |-> "create_subroutine_type", file |-> file.node,
                      signature |-> sig.signature]), LAMBDA fnty :
    Then(get_template_parameters(fnty, level, instance.generics,
                                 truncate_to(instance.substs, instance.generics),
                                 file.node, instance.name), LAMBDA tp :
    Result("RegularContext",
           DIB(tp.cx, [fn |-> "create_function", scope |-> scope.node,
                       name |-> tp.name, file |-> file.node, line |-> loc.line,
                       signature |-> sig.signature, scope_line |-> loc.line,
                       template_params |-> tp.params]),
           RegularContext([name |-> tp.name, line |-> loc.line], instance.krate))))))))

\* A mutant of create_function_debug_context that looks at the attributes
\* before the debug-info level.
create_function_debug_context_attrs_first(cx, level, is_like_msvc, instance) ==
    IF instance.no_debug
    THEN Result("FunctionWithoutDebugInfo", cx, FunctionWithoutDebugInfo)
    ELSE IF level = "NoDebugInfo"
    THEN Result("DebugInfoDisabled", cx, DebugInfoDisabled)
    ELSE create_after_checks(cx, level, is_like_msvc, instance)

\* create_function_debug_context(cx, instance, sig, llfn, mir):
\* [outcome, cx, context]; outcome is the variant returned or the panic.
create_function_debug_context(cx, level, is_like_msvc, instance) ==
    IF level = "NoDebugInfo" THEN Result("DebugInfoDisabled", cx, DebugInfoDisabled)
    ELSE IF instance.no_debug
    THEN Result("FunctionWithoutDebugInfo", cx, FunctionWithoutDebugInfo)
    ELSE create_after_checks(cx, level, is_like_msvc, instance)

\* ------------------------------------------------------------ declare_local
\* A mutant of argument_index_and_tag that takes a captured variable for
\* an argument.
argument_index_and_tag_captured_as_argument(kind) ==
    IF kind.kind \in {"ArgumentVariable", "CapturedVariable"}
    THEN [argument_index |-> kind.index, dwarf_tag |-> DW_TAG_arg_variable]
    ELSE [argument_index |-> 0, dwarf_tag |-> DW_TAG_auto_variable]

\* A mutant of argument_index_and_tag that passes a 0-based index on.
argument_index_and_tag_zero_based(kind) ==
    IF kind.kind = "ArgumentVariable"
    THEN [argument_index |-> kind.index - 1, dwarf_tag |-> DW_TAG_arg_variable]
    ELSE [argument_index |-> 0, dwarf_tag |-> DW_TAG_auto_variable]

\* (argument_index, dwarf_tag) of a variable kind
argument_index_and_tag(kind) ==
    IF kind.kind = "ArgumentVariable"
    THEN [argument_index |-> kind.index, dwarf_tag |-> DW_TAG_arg_variable]
    ELSE [argument_index |-> 0, dwarf_tag |-> DW_TAG_auto_variable]

\* (DirectVariable { .. }, &[][..]) | (IndirectVariable { address_operations, .. }, _)
address_operations_of(access) ==
    IF access.access = "DirectVariable" THEN <<>> ELSE access.address_operations

\* A mutant of emit_declaration that inserts the declare marker before it
\* sets the debug location.
emit_declaration_marker_first(cx, data, variable_type, scope_metadata, access, kind, span) ==
    Then(span_start(span), LAMBDA loc :
    Then(file_metadata(cx, loc.file, data.defining_crate), LAMBDA file :
    Then(type_metadata(file.cx, variable_type), LAMBDA ty :
    Then([fn |-> "create_variable",
          tag |-> argument_index_and_tag(kind).dwarf_tag,
          scope |-> scope_metadata, file |-> file.node, line |-> loc.line,
          ty |-> ty.node,
          argument_index |-> argument_index_and_tag(kind).argument_index],
         LAMBDA var :
    Then(Call(DIB(DIB(ty.cx, var),
                  [fn |-> "insert_declare", variable |-> var,
                   address_operations |-> address_operations_of(access),
                   debug_loc |-> ty.cx.debug_loc]),
              [fn |-> "set_inst_debug_location", loc |-> ty.cx.debug_loc]),
         LAMBDA marked :
    set_debug_location(marked, KnownLocation(scope_metadata, loc.line, loc.col)))))))

\* declare_local up to the final match on the kind: the file and type
\* nodes, the variable node, the debug location and the declare marker
emit_declaration(cx, data, variable_type, scope_metadata, access, kind, span) ==
    Then(span_start(span), LAMBDA loc :
    Then(file_metadata(cx, loc.file, data.defining_crate), LAMBDA file :
    Then(type_metadata(file.cx, variable_type), LAMBDA ty :
    Then([fn |-> "create_variable",
          tag |-> argument_index_and_tag(kind).dwarf_tag,
          scope |-> scope_metadata, file |-> file.node, line |-> loc.line,
          ty |-> ty.node,
          argument_index |-> argument_index_and_tag(kind).argument_index],
         LAMBDA var :
    Then(set_debug_location(DIB(ty.cx, var),
                            KnownLocation(scope_metadata, loc.line, loc.col)),
         LAMBDA located :
    Call(DIB(located, [fn |-> "insert_declare", variable |-> var,
                       address_operations |-> address_operations_of(access),
                       debug_loc |-> located.debug_loc]),
         [fn |-> "set_inst_debug_location", loc |-> located.debug_loc]))))))

Declared(outcome, message, cx, context) ==
    [outcome |-> outcome, message |-> message, cx |-> cx, context |-> context]

\* A mutant of declare_local without the assertion on the flag.
declare_local_unasserted(cx, context, variable_type, scope_metadata, access, kind, span) ==
    IF get_ref(context).bug
    THEN Declared("span_bug", get_ref(context).message, cx, context)
    ELSE
    Then(emit_declaration(cx, get_ref(context).data, variable_type, scope_metadata,
                          access, kind, span), LAMBDA emitted :
    IF kind.kind \in {"ArgumentVariable", "CapturedVariable"}
    THEN Declared("ok", "", set_debug_location(emitted, UnknownLocation), context)
    ELSE Declared("ok", "", emitted, context))

\* A mutant of declare_local that asks for the function data after the
\* declaration is emitted.
declare_local_late_get_ref(cx, context, variable_type, scope_metadata, access, kind, span) ==
    Then(emit_declaration(cx, context, variable_type, scope_metadata,
                          access, kind, span), LAMBDA emitted :
    IF get_ref(context).bug
    THEN Declared("span_bug", get_ref(context).message, emitted, context)
    ELSE IF kind.kind \in {"ArgumentVariable", "CapturedVariable"}
    THEN IF get_ref(context).data.source_locations_enabled
         THEN Declared("assertion failed", "!source_locations_enabled", emitted, context)
         ELSE Declared("ok", "", set_debug_location(emitted, UnknownLocation), context)
    ELSE Declared("ok", "", emitted, context))

\* A mutant of declare_local that asserts the flag before it emits the
\* declaration.
declare_local_assert_first(cx, context, variable_type, scope_metadata, access, kind, span) ==
    IF get_ref(context).bug
    THEN Declared("span_bug", get_ref(context).message, cx, context)
    ELSE IF /\ kind.kind \in {"ArgumentVariable", "CapturedVariable"}
            /\ get_ref(context).data.source_locations_enabled
    THEN Declared("assertion failed", "!source_locations_enabled", cx, context)
    ELSE
    Then(emit_declaration(cx, get_ref(context).data, variable_type, scope_metadata,
                          access, kind, span), LAMBDA emitted :
    IF kind.kind \in {"ArgumentVariable", "CapturedVariable"}
    THEN Declared("ok", "", set_debug_location(emitted, UnknownLocation), context)
    ELSE Declared("ok", "", emitted, context))

\* declare_local(bx, dbg_context, variable_name, variable_type,
\*               scope_metadata, variable_access, variable_kind, span):
\* [outcome, message, cx, context].  The argument
\* dbg_context.get_ref(span).defining_crate is evaluated before
\* file_metadata is entered.
declare_local(cx, context, variable_type, scope_metadata, access, kind, span) ==
    IF get_ref(context).bug
    THEN Declared("span_bug", get_ref(context).message, cx, context)
    ELSE
    Then(emit_declaration(cx, get_ref(context).data, variable_type, scope_metadata,
                          access, kind, span), LAMBDA emitted :
    IF kind.kind \in {"ArgumentVariable", "CapturedVariable"}
    THEN IF get_ref(context).data.source_locations_enabled
         THEN Declared("assertion failed", "!source_locations_enabled", emitted, context)
         ELSE Declared("ok", "", set_debug_location(emitted, UnknownLocation), context)
    ELSE Declared("ok", "", emitted, context))

\* source_loc::start_emitting_source_locations(dbg_context)
start_emitting_source_locations(context) ==
    IF context.variant = "RegularContext"
    THEN [context EXCEPT !.source_locations_enabled = TRUE]
    ELSE context

\* ------------------------------------------------------------------ finalize
AddModuleFlag(cx, key, value) ==
    Call([cx EXCEPT !.module_flags = @ \cup {[key |-> key, value |-> value]}],
         [fn |-> "LLVMRustAddModuleFlag", key |-> key, value |-> value])

\* gdb::get_or_insert_gdb_debug_scripts_section_global(cx), when needed
gdb_debug_scripts_section(cx, needs_gdb_section) ==
    IF needs_gdb_section
    THEN Call([cx EXCEPT !.gdb_section = TRUE],
              [fn |-> "get_or_insert_gdb_debug_scripts_section_global"])
    ELSE cx

\* LLVMRustDIBuilderFinalize(DIB(cx)); LLVMRustDIBuilderDispose(DIB(cx))
finalize_and_dispose(cx) ==
    Then([DIB(cx, [fn |-> "LLVMRustDIBuilderFinalize"])
             EXCEPT !.builder.finalized = @ + 1], LAMBDA finalized :
    [DIB(finalized, [fn |-> "LLVMRustDIBuilderDispose"])
        EXCEPT !.builder.disposed = @ + 1])

\* the module flags of finalize
add_module_flags(cx, options) ==
    Then(IF options.is_like_osx \/ options.is_like_android
         THEN AddModuleFlag(cx, "Dwarf Version", 2) ELSE cx, LAMBDA dwarf :
    Then(IF options.is_like_msvc THEN AddModuleFlag(dwarf, "CodeView", 1) ELSE dwarf,
         LAMBDA codeview :
    AddModuleFlag(codeview, "Debug Info Version", LLVMRustDebugMetadataVersion)))

\* A mutant of finalize that does not look at cx.dbg_cx.
finalize_unguarded(cx, has_dbg_cx, options, needs_gdb_section) ==
    add_module_flags(finalize_and_dispose(
        gdb_debug_scripts_section(cx, needs_gdb_section)), options)

\* A mutant of finalize that writes the flags before the builder is done
\* and pins the DWARF version on every target.
finalize_flags_first(cx, has_dbg_cx, options, needs_gdb_section) ==
    IF ~has_dbg_cx THEN cx
    ELSE finalize_and_dispose(
            add_module_flags(AddModuleFlag(cx, "Dwarf Version", 2), options))

\* finalize(cx): the CodegenCx after the call
finalize(cx, has_dbg_cx, options, needs_gdb_section) ==
    IF ~has_dbg_cx THEN cx
    ELSE add_module_flags(finalize_and_dispose(
            gdb_debug_scripts_section(cx, needs_gdb_section)), options)

\* ------------------------------------------------------------------- actions
\* span_bug!, assert!, expect: the compiler aborts; a use of the disposed
\* builder may crash it.
FatalOutcomes == {"span_bug", "assertion failed", "crash",
                  "bug: set_members_of_composite_type",
                  "panic: get_containing_scope: missing parent?",
                  "panic: get_function_signature"}
Aborted == last.outcome \in FatalOutcomes

\* a use of freed memory either goes unnoticed or crashes the process
Outcomes(cx, outcome) ==
    (IF cx.bug THEN {"bug: set_members_of_composite_type"} ELSE {outcome})
    \cup (IF cx.builder.dangling_use THEN {"crash"} ELSE {})

Commit(cx) ==
    /\ created_files' = cx.created_files
    /\ type_map' = cx.type_map
    /\ namespace_map' = cx.namespace_map
    /\ composite_types_completed' = cx.composite_types_completed
    /\ di_type_nodes' = cx.di_type_nodes
    /\ builder' = cx.builder
    /\ module_flags' = cx.module_flags
    /\ gdb_section' = cx.gdb_section
    /\ debug_loc' = cx.debug_loc

Ran(op, input, outcome, cx) ==
    last' = [op |-> op, input |-> input, outcome |-> outcome,
             calls |-> cx.calls, lookups |-> cx.lookups]

Init ==
    /\ debuginfo \in DebugInfoLevels
    /\ target \in TargetOptions
    /\ created_files = {}
    /\ type_map = EmptyMap
    /\ namespace_map = {}
    /\ composite_types_completed = {}
    /\ di_type_nodes = EmptyMap
    /\ builder = [finalized |-> 0, disposed |-> 0, dangling_use |-> FALSE]
    /\ module_flags = {}
    /\ gdb_section = FALSE
    /\ debug_loc = UnknownLocation
    /\ dbg_context = NoContext
    /\ last = [op |-> "new", input |-> <<>>, outcome |-> "ok",
               calls |-> <<>>, lookups |-> <<>>]
    /\ history = <<>>

CreateFunctionDebugContext(instance) ==
    /\ ~Aborted
    /\ LET r == create_function_debug_context(CX, debuginfo, target.is_like_msvc,
                                              instance)
       IN \E outcome \in Outcomes(r.cx, r.outcome) :
            /\ Commit(r.cx)
            /\ dbg_context' = IF outcome \in FatalOutcomes THEN dbg_context
                              ELSE r.context
            /\ Ran("create_function_debug_context", instance, outcome, r.cx)
    /\ UNCHANGED <<debuginfo, target>>

DeclareLocal(variable_type, scope_metadata, access, kind, span) ==
    /\ ~Aborted
    /\ dbg_context.variant # "none"
    /\ LET r == declare_local(CX, dbg_context, variable_type, scope_metadata,
                              access, kind, span)
       IN \E outcome \in Outcomes(r.cx, r.outcome) :
            /\ Commit(r.cx)
            /\ dbg_context' = r.context
            /\ Ran("declare_local",
                   [variable_type |-> variable_type, scope_metadata |-> scope_metadata,
                    access |-> access, kind |-> kind, span |-> span,
                    context |-> dbg_context],
                   outcome, r.cx)
    /\ UNCHANGED <<debuginfo, target>>

GetRef ==
    /\ ~Aborted
    /\ dbg_context.variant # "none"
    /\ LET r == get_ref(dbg_context)
       IN Ran("get_ref", [context |-> dbg_context, data |-> r.data],
              IF r.bug THEN "span_bug" ELSE "data", CX)
    /\ UNCHANGED <<debuginfo, target, created_files, type_map, namespace_map,
                   composite_types_completed, di_type_nodes, builder, module_flags,
                   gdb_section, debug_loc, dbg_context>>

StartEmittingSourceLocations ==
    /\ ~Aborted
    /\ dbg_context.variant # "none"
    /\ dbg_context' = start_emitting_source_locations(dbg_context)
    /\ Ran("start_emitting_source_locations", [context |-> dbg_context], "ok", CX)
    /\ UNCHANGED <<debuginfo, target, created_files, type_map, namespace_map,
                   composite_types_completed, di_type_nodes, builder, module_flags,
                   gdb_section, debug_loc>>

\* the composite nodes of the type-map
CompositeNodes ==
    {type_map[t] : t \in {u \in DOMAIN type_map : u.sty = "TyAdt"}}

SetMembersOfCompositeType(node) ==
    /\ ~Aborted
    /\ LET cx == set_members_of_composite_type(CX, node)
       IN \E outcome \in Outcomes(cx, "ok") :
            /\ Commit(cx)
            /\ Ran("set_members_of_composite_type", [node |-> node], outcome, cx)
    /\ UNCHANGED <<debuginfo, target, dbg_context>>

Finalize(needs_gdb_section) ==
    /\ ~Aborted
    /\ builder.finalized < MaxFinalize
    /\ LET cx == finalize(CX, dbg_cx_is_some, target, needs_gdb_section)
       IN \E outcome \in Outcomes(cx, "return") :
            /\ Commit(cx)
            /\ Ran("finalize", [needs_gdb_section |-> needs_gdb_section], outcome, cx)
    /\ UNCHANGED <<debuginfo, target, dbg_context>>

\* the specifications below that do not keep the operations run so far
Unkept == UNCHANGED history
Keep == history' = Append(history, last')

Next ==
    \/ Unkept /\ \E instance \in Instances : CreateFunctionDebugContext(instance)
    \/ Unkept /\ \E ty \in VariableTypes, scope \in Scopes,
                     access \in VariableAccesses, kind \in VariableKinds,
                     span \in VariableSpans :
                     DeclareLocal(ty, scope, access, kind, span)
    \/ Unkept /\ GetRef
    \/ Unkept /\ StartEmittingSourceLocations
    \/ Unkept /\ \E node \in CompositeNodes : SetMembersOfCompositeType(node)
    \/ Unkept /\ \E needs_gdb_section \in BOOLEAN : Finalize(needs_gdb_section)

\* The driver's use of a unit: functions are translated while the unit is
\* open and finalize ends it.
UnitOpen == builder.disposed = 0
DriverNext ==
    \/ UnitOpen /\ Unkept /\ \E instance \in Instances : CreateFunctionDebugContext(instance)
    \/ UnitOpen /\ Unkept /\ \E ty \in VariableTypes, scope \in Scopes,
                      access \in VariableAccesses, kind \in VariableKinds,
                      span \in VariableSpans :
                      DeclareLocal(ty, scope, access, kind, span)
    \/ UnitOpen /\ Unkept /\ GetRef
    \/ UnitOpen /\ Unkept /\ StartEmittingSourceLocations
    \/ UnitOpen /\ Unkept /\ \E node \in CompositeNodes : SetMembersOfCompositeType(node)
    \/ UnitOpen /\ Unkept /\ \E needs_gdb_section \in BOOLEAN : Finalize(needs_gdb_section)
Spec == Init /\ [][DriverNext]_vars

\* Any caller the signatures allow: finalize takes &CodegenCx and leaves
\* the unit in the caller's hands.  The builder's life cycle does not
\* depend on the target, so one target is explored.
AnyOrderInit ==
    /\ Init
    /\ target = [is_like_osx |-> FALSE, is_like_android |-> FALSE,
                 is_like_msvc |-> FALSE]
SpecAnyOrder == AnyOrderInit /\ [][Next]_vars

\* Signatures, generics and impls: up to MaxCreated functions of
\* SignatureInstances are translated in a fresh unit; the operations run
\* are kept.  The macOS and Android options are read by finalize alone.
SignaturesInit ==
    /\ Init
    /\ ~target.is_like_osx
    /\ ~target.is_like_android
SignaturesNext ==
    /\ Len(history) < MaxCreated
    /\ \E instance \in SignatureInstances : CreateFunctionDebugContext(instance)
    /\ Keep
SpecSignatures == SignaturesInit /\ [][SignaturesNext]_vars

\* One unit with full debug info from its creation to finalize: functions
\* are translated, their arguments declared, and finalize ends the unit;
\* the operations run are kept.
AddInstance ==
    Plain("add", 10, FreeFn, FnSig("Rust", <<TyI32, TyI32>>, TyI32), NoGenerics, <<>>)
EndToEndInit ==
    /\ Init
    /\ debuginfo = "FullDebugInfo"
    /\ ~target.is_like_android
    /\ ~target.is_like_msvc
EndToEndNext ==
    /\ UnitOpen
    /\ Len(history) < MaxOperations
    /\ \/ \E instance \in {AddInstance, GenericInstance} :
             CreateFunctionDebugContext(instance)
       \/ \E access \in VariableAccesses, index \in 1..MaxArgIndex, span \in VariableSpans :
             DeclareLocal(TyI32, "fn_scope", access,
                          [kind |-> "ArgumentVariable", index |-> index], span)
       \/ \E needs_gdb_section \in BOOLEAN : Finalize(needs_gdb_section)
    /\ Keep
SpecEndToEnd == EndToEndInit /\ [][EndToEndNext]_vars

\* ------------------------------------------------------------- properties
Made(fn) == \E i \in 1..Len(last.calls) : last.calls[i].fn = fn
CallsOf(fn) == {i \in 1..Len(last.calls) : last.calls[i].fn = fn}
Wrote(key, value) ==
    \E i \in CallsOf("LLVMRustAddModuleFlag") :
        last.calls[i].key = key /\ last.calls[i].value = value
Created == last.op = "create_function_debug_context"
Declares == last.op = "declare_local"

\* C1: with debug info off, create_function_debug_context returns
\* DebugInfoDisabled whatever the function, makes no call on the builder
\* and leaves the caches of the unit as they were (empty: nothing fills
\* them in such a unit).
C1_DisabledMakesNoCall ==
    (Created /\ debuginfo = "NoDebugInfo") =>
        /\ last.outcome = "DebugInfoDisabled"
        /\ dbg_context = DebugInfoDisabled
        /\ last.calls = <<>>
        /\ created_files = {}
        /\ DOMAIN type_map = {}
        /\ namespace_map = {}
        /\ DOMAIN di_type_nodes = {}

C1_Witness ==
    /\ Created
    /\ debuginfo = "NoDebugInfo"
    /\ last.input.no_debug
    /\ last.input.span = DUMMY_SP
    /\ last.input.impl = InherentImpl(TyPoint)
    /\ last.outcome = "DebugInfoDisabled"

\* C2 as claimed: with debug info limited or full, a function carrying
\* no_debug or whose body span is the dummy span gets
\* FunctionWithoutDebugInfo, and no subprogram node is created for it.
C2_SuppressedAsClaimed ==
    (Created /\ debuginfo # "NoDebugInfo"
       /\ (last.input.no_debug \/ last.input.span = DUMMY_SP)) =>
        /\ last.outcome = "FunctionWithoutDebugInfo"
        /\ ~Made("create_function")

\* C3 as claimed: a function with the dummy span (debug info on, no
\* no_debug attribute) gets FunctionWithoutDebugInfo without a panic, and
\* the type-map and the namespace cache stay as they were.
C3_SyntheticSpanAsClaimed ==
    [][(/\ last'.op = "create_function_debug_context"
        /\ debuginfo # "NoDebugInfo"
        /\ ~last'.input.no_debug
        /\ last'.input.span = DUMMY_SP)
       => (/\ last'.outcome = "FunctionWithoutDebugInfo"
           /\ type_map' = type_map
           /\ namespace_map' = namespace_map)]_vars

\* C4: get_ref returns the function data exactly on a RegularContext; on
\* DebugInfoDisabled and on FunctionWithoutDebugInfo it ends in span_bug,
\* also when declare_local is the caller.
C4_GetRefOnlyRegular ==
    /\ last.op = "get_ref" =>
        /\ last.outcome = "data" <=> last.input.context.variant = "RegularContext"
        /\ last.outcome = "data" => last.input.data = last.input.context
        /\ last.input.context.variant \in {"DebugInfoDisabled", "FunctionWithoutDebugInfo"}
              => last.outcome = "span_bug"
    /\ Declares =>
        (last.outcome = "span_bug" <=> last.input.context.variant # "RegularContext")

C4_Witness ==
    /\ last.op = "get_ref"
    /\ last.input.context.variant = "FunctionWithoutDebugInfo"
    /\ last.outcome = "span_bug"

\* C5: on a RegularContext whose source_locations_enabled is true,
\* declare_local of an ArgumentVariable or CapturedVariable fails its
\* assertion, and declare_local of a LocalVariable succeeds.
C5_ArgumentAfterLocationsRejected ==
    (Declares /\ last.input.context.variant = "RegularContext"
       /\ last.input.context.source_locations_enabled) =>
        IF last.input.kind.kind \in {"ArgumentVariable", "CapturedVariable"}
        THEN last.outcome = "assertion failed"
        ELSE last.outcome = "ok"

C5_Witness ==
    /\ Declares
    /\ last.input.context.variant = "RegularContext"
    /\ last.input.context.source_locations_enabled
    /\ last.input.kind.kind = "CapturedVariable"
    /\ last.outcome = "assertion failed"

\* C6: a RegularContext is created with source_locations_enabled false;
\* declare_local of any kind leaves the context as it was, only
\* start_emitting_source_locations raises the flag, and while the flag is
\* false every ArgumentVariable declaration succeeds.
C6_DeclareKeepsFlag ==
    /\ []((Created /\ last.outcome = "RegularContext")
            => ~dbg_context.source_locations_enabled)
    /\ []((Declares /\ last.input.context.variant = "RegularContext"
             /\ ~last.input.context.source_locations_enabled
             /\ last.input.kind.kind = "ArgumentVariable")
            => (last.outcome = "ok" /\ ~dbg_context.source_locations_enabled))
    /\ [][(last'.op = "declare_local" => dbg_context' = dbg_context)
          /\ ((dbg_context'.source_locations_enabled
               /\ ~dbg_context.source_locations_enabled)
              => last'.op = "start_emitting_source_locations")]_vars

C6_Witness ==
    /\ Declares
    /\ last.input.kind = [kind |-> "ArgumentVariable", index |-> 2]
    /\ last.input.context.variant = "RegularContext"
    /\ last.outcome = "ok"
    /\ ~dbg_context.source_locations_enabled
    /\ <<"lib.rs", LOCAL_CRATE>> \in created_files
    /\ ~Made("create_file")

\* C7 as claimed: whatever the caller does, the builder is finalized and
\* disposed at most once, finalized before it is disposed, and never used
\* once disposed.
C7_LifecycleAsClaimed ==
    /\ builder.finalized <= 1
    /\ builder.disposed <= 1
    /\ builder.disposed <= builder.finalized
    /\ ~builder.dangling_use

\* C8: finalize on a unit with debug info writes "Debug Info Version" on
\* every target, "Dwarf Version" = 2 exactly on macOS-like and Android-like
\* targets, "CodeView" = 1 exactly on MSVC-like targets, every flag after
\* the builder was finalized and then disposed.
C8_FinalizeFlags ==
    (last.op = "finalize" /\ dbg_cx_is_some) =>
        /\ Wrote("Debug Info Version", LLVMRustDebugMetadataVersion)
        /\ Wrote("Dwarf Version", 2) <=> (target.is_like_osx \/ target.is_like_android)
        /\ Wrote("CodeView", 1) <=> target.is_like_msvc
        /\ \A i \in CallsOf("LLVMRustAddModuleFlag") :
              /\ <<last.calls[i].key, last.calls[i].value>> \in
                    {<<"Debug Info Version", LLVMRustDebugMetadataVersion>>,
                     <<"Dwarf Version", 2>>, <<"CodeView", 1>>}
              /\ [key |-> last.calls[i].key, value |-> last.calls[i].value] \in module_flags
              /\ \E f \in CallsOf("LLVMRustDIBuilderFinalize"),
                    d \in CallsOf("LLVMRustDIBuilderDispose") : f < d /\ d < i

C8_Witness ==
    /\ last.op = "finalize"
    /\ debuginfo = "LimitedDebugInfo"
    /\ target.is_like_msvc /\ target.is_like_android
    /\ module_flags = {[key |-> "Dwarf Version", value |-> 2],
                       [key |-> "CodeView", value |-> 1],
                       [key |-> "Debug Info Version",
                        value |-> LLVMRustDebugMetadataVersion]}
    /\ builder.disposed = 1

\* C9: on a unit without a crate debug context finalize does nothing: no
\* marker global, no builder finalize or dispose, no module flag.
C9_FinalizeWithoutContext ==
    ~dbg_cx_is_some =>
        /\ builder = [finalized |-> 0, disposed |-> 0, dangling_use |-> FALSE]
        /\ module_flags = {}
        /\ ~gdb_section
        /\ last.op = "finalize" => (last.calls = <<>> /\ last.outcome = "return")

C9_Witness ==
    /\ ~dbg_cx_is_some
    /\ last.op = "finalize"
    /\ last.input.needs_gdb_section
    /\ target.is_like_osx
    /\ module_flags = {}

\* C10: the type-map holds one node per type: the builder has created
\* exactly one node for every type in the map and none for any other,
\* distinct types hold distinct nodes, and every node type_metadata handed
\* to the running operation, whoever asked, is the one the map holds.
C10_OneNodePerType ==
    /\ DOMAIN di_type_nodes = DOMAIN type_map
    /\ \A t \in DOMAIN type_map :
          /\ di_type_nodes[t] = 1
          /\ type_map[t].ty = t
    /\ \A t1, t2 \in DOMAIN type_map : t1 # t2 => type_map[t1] # type_map[t2]
    /\ \A i \in 1..Len(last.lookups) :
          /\ last.lookups[i].ty \in DOMAIN type_map
          /\ last.lookups[i].node = type_map[last.lookups[i].ty]
    /\ Cardinality(CallsOf("create_type")) <= Len(last.lookups)

C10_Witness ==
    /\ Declares
    /\ last.input.variable_type = TyPoint
    /\ {TyI32, TyU8, TyPoint} \subseteq DOMAIN type_map
    /\ last.lookups = <<[ty |-> TyPoint, node |-> type_map[TyPoint]]>>
    /\ ~Made("create_type")

\* C11: the members of a composite node are set once.  Every set_members
\* call the builder receives is for a node that was not yet in
\* composite_types_completed and is in it afterwards, no operation sets the
\* members of one node twice, every composite node of the type-map has
\* been populated, and populating a node of the completed set again ends
\* in bug! with no builder call and the set as it was.
C11_MembersSetOnce ==
    /\ [](composite_types_completed = CompositeNodes)
    /\ [][/\ \A i \in 1..Len(last'.calls) :
              last'.calls[i].fn = "set_members" =>
                 /\ last'.calls[i].node \notin composite_types_completed
                 /\ last'.calls[i].node \in composite_types_completed'
                 /\ \A j \in 1..Len(last'.calls) :
                       (last'.calls[j].fn = "set_members"
                        /\ last'.calls[j].node = last'.calls[i].node) => j = i
          /\ (last'.op = "set_members_of_composite_type"
               /\ last'.input.node \in composite_types_completed) =>
                 /\ last'.outcome = "bug: set_members_of_composite_type"
                 /\ last'.calls = <<>>
                 /\ composite_types_completed' = composite_types_completed]_vars

C11_Witness ==
    /\ last.op = "set_members_of_composite_type"
    /\ last.input.node = [ty |-> TyPoint, nth |-> 1]
    /\ last.input.node \in composite_types_completed
    /\ last.outcome = "bug: set_members_of_composite_type"

\* the calls of one kind the last operation made, in order
IsTemplateParameter(c) == c.fn = "create_template_type_parameter"
IsCreateFunction(c) == c.fn = "create_function"
TemplateParameters == SelectSeq(last.calls, IsTemplateParameter)
Subprograms == SelectSeq(last.calls, IsCreateFunction)

\* the type parameters in scope of a function, outermost generics first
RECURSIVE ParametersInScope(_)
ParametersInScope(generics) ==
    IF generics.parent = None THEN generics.types
    ELSE ParametersInScope(generics.parent[1]) \o generics.types

\* C12: a function with k generic type arguments gets, under full debug
\* info, k template-parameter nodes, the i-th binding the i-th parameter
\* name (enclosing generics first, then its own) to the node of the i-th
\* substituted type; under limited debug info, and for k = 0, it gets
\* none.  The subprogram node carries exactly these nodes.
C12_TemplateParameters ==
    Created =>
        /\ last.outcome # "RegularContext" => TemplateParameters = <<>>
        /\ last.outcome = "RegularContext" =>
              /\ Len(Subprograms) = 1
              /\ Subprograms[1].template_params = TemplateParameters
              /\ Len(TemplateParameters) =
                    IF debuginfo = "FullDebugInfo"
                    THEN Len(ParametersInScope(last.input.generics))
                    ELSE 0
              /\ \A i \in 1..Len(TemplateParameters) :
                    /\ TemplateParameters[i].name =
                          ParametersInScope(last.input.generics)[i]
                    /\ TemplateParameters[i].ty = type_map[last.input.substs[i]]
                    /\ TemplateParameters[i].ty.ty = last.input.substs[i]

C12_Witness ==
    /\ Created
    /\ debuginfo = "FullDebugInfo"
    /\ last.input.name = "map"
    /\ Len(TemplateParameters) = 2
    /\ TemplateParameters[1].name = "T" /\ TemplateParameters[1].ty.ty = TyU8
    /\ TemplateParameters[2].name = "U" /\ TemplateParameters[2].ty.ty = TyI32

\* the display name the debugger is to show for the functions of
\* SignatureInstances that have generic type arguments
DisplayName(instance) ==
    CASE instance.name = "id" -> "id<u8>"
      [] instance.name = "pair" -> "pair<u8,(i32, u8)>"
      [] instance.name = "map" -> "map<u8,i32>"
      [] instance.name = "{{closure}}" -> "{{closure}}<u8>"
      [] OTHER -> instance.name

\* C13: the subprogram node's name is the definition's name, followed by
\* '<', the formatted generic type arguments joined by ',' and '>' when
\* there is at least one such argument, under limited and full debug info
\* alike; the FunctionDebugContextData holds that node.
C13_DisplayName ==
    (Created /\ last.outcome = "RegularContext") =>
        /\ Len(Subprograms) = 1
        /\ Subprograms[1].name = DisplayName(last.input)
        /\ (ParametersInScope(last.input.generics) = <<>>)
              <=> (Subprograms[1].name = last.input.name)
        /\ dbg_context.fn_metadata.name = Subprograms[1].name

C13_Witness ==
    /\ Created
    /\ debuginfo = "LimitedDebugInfo"
    /\ last.input.name = "pair"
    /\ last.outcome = "RegularContext"
    /\ Subprograms[1].name = "pair<u8,(i32, u8)>"

\* every call made on the unit so far, in order
RECURSIVE CallsUpTo(_)
CallsUpTo(n) == IF n = 0 THEN <<>> ELSE CallsUpTo(n - 1) \o history[n].calls
AllCalls == CallsUpTo(Len(history))
IsCreateFile(c) == c.fn = "create_file"
IsCreateVariable(c) == c.fn = "create_variable"
IsInsertDeclare(c) == c.fn = "insert_declare"
IsBuilderFinalize(c) == c.fn = "LLVMRustDIBuilderFinalize"
IsDebugInfoVersion(c) ==
    c.fn = "LLVMRustAddModuleFlag" /\ c.key = "Debug Info Version"

\* add is translated, its two arguments are declared in order by direct
\* access, and the unit is finalized
DeclaredArgument(h, index) ==
    /\ h.op = "declare_local"
    /\ h.outcome = "ok"
    /\ h.input.kind = [kind |-> "ArgumentVariable", index |-> index]
    /\ h.input.access.access = "DirectVariable"
    /\ h.input.variable_type = TyI32
EndToEndScenario ==
    /\ Len(history) = 4
    /\ history[1].op = "create_function_debug_context"
    /\ history[1].input = AddInstance
    /\ DeclaredArgument(history[2], 1)
    /\ DeclaredArgument(history[3], 2)
    /\ history[4].op = "finalize"

\* C14: in a unit with full debug info, translating add(a: i32, b: i32)
\* at line 10, declaring its two arguments (indices 1 and 2, direct
\* access) and finalizing yields one file node, one subprogram node named
\* add at line 10, two argument variables with indices 1 and 2 and empty
\* address operations, no template parameter, and one builder finalize
\* with the "Debug Info Version" flag written.
C14_EndToEnd ==
    EndToEndScenario =>
        /\ Len(SelectSeq(AllCalls, IsCreateFile)) = 1
        /\ Len(SelectSeq(AllCalls, IsCreateFunction)) = 1
        /\ SelectSeq(AllCalls, IsCreateFunction)[1].name = "add"
        /\ SelectSeq(AllCalls, IsCreateFunction)[1].line = 10
        /\ Len(SelectSeq(AllCalls, IsCreateVariable)) = 2
        /\ \A i \in 1..2 :
              /\ SelectSeq(AllCalls, IsCreateVariable)[i].tag = DW_TAG_arg_variable
              /\ SelectSeq(AllCalls, IsCreateVariable)[i].argument_index = i
        /\ Len(SelectSeq(AllCalls, IsInsertDeclare)) = 2
        /\ \A i \in 1..2 :
              /\ SelectSeq(AllCalls, IsInsertDeclare)[i].address_operations = <<>>
              /\ SelectSeq(AllCalls, IsInsertDeclare)[i].variable =
                    SelectSeq(AllCalls, IsCreateVariable)[i]
        /\ SelectSeq(AllCalls, IsTemplateParameter) = <<>>
        /\ Len(SelectSeq(AllCalls, IsBuilderFinalize)) = 1
        /\ Len(SelectSeq(AllCalls, IsDebugInfoVersion)) = 1
        /\ [key |-> "Debug Info Version", value |-> LLVMRustDebugMetadataVersion]
              \in module_flags
        /\ builder = [finalized |-> 1, disposed |-> 1, dangling_use |-> FALSE]

C14_Witness ==
    /\ EndToEndScenario
    /\ history[4].outcome = "return"
    /\ created_files = {<<"lib.rs", LOCAL_CRATE>>}
    /\ DOMAIN type_map = {TyI32}

IsSubroutineType(c) == c.fn = "create_subroutine_type"
SubroutineTypes == SelectSeq(last.calls, IsSubroutineType)
\* the types of the entries of a signature list, the null entry included
EntryTypes(signature) == [i \in 1..Len(signature) |-> signature[i].ty]

IsUnit(t) == t.sty = "TyTuple" /\ t.elems = <<>>
LastInput(sig) == sig.inputs[Len(sig.inputs)]
\* the entry list as the claim states it, under full debug info
ClaimedEntries(sig) ==
    <<IF IsUnit(sig.output) THEN NullNode.ty ELSE sig.output>>
    \o (IF sig.abi = "RustCall" /\ Len(sig.inputs) > 0
            /\ LastInput(sig).sty = "TyTuple"
        THEN SubSeq(sig.inputs, 1, Len(sig.inputs) - 1) \o LastInput(sig).elems
        ELSE sig.inputs)

\* C15 as claimed: the entry list of the subroutine type is empty under
\* limited debug info; under full debug info it is the return type (a null
\* entry for unit), then the declared parameter types in order, where a
\* rust-call signature whose last parameter is a tuple has that tuple's
\* element types in its place.  (MSVC-like targets replace entries: there
\* the count and the return entry are compared.)
C15_SignatureAsClaimed ==
    (Created /\ last.outcome = "RegularContext") =>
        /\ Len(SubroutineTypes) = 1
        /\ debuginfo = "LimitedDebugInfo" => SubroutineTypes[1].signature = <<>>
        /\ debuginfo = "FullDebugInfo" =>
              /\ Len(SubroutineTypes[1].signature) = Len(ClaimedEntries(last.input.sig))
              /\ SubroutineTypes[1].signature[1].ty = ClaimedEntries(last.input.sig)[1]
              /\ ~target.is_like_msvc =>
                    EntryTypes(SubroutineTypes[1].signature)
                       = ClaimedEntries(last.input.sig)

\* the argument types the claim has replaced on MSVC-like targets
IsByteArray(t) == t.sty = "TyArray" /\ t.elems[1] = TyU8
ClaimsReplaced(t) == IsByteArray(t) \/ is_zst(t)

\* C16 as claimed: on MSVC-like targets every argument entry whose type is
\* an array of single-byte elements, or is zero-sized, is an immutable
\* pointer (to the element type, for an array) instead of the type; on any
\* other target every argument entry is the type itself; the return entry
\* is the return type on every target.
C16_MsvcArgumentsAsClaimed ==
    (/\ Created
     /\ last.outcome = "RegularContext"
     /\ debuginfo = "FullDebugInfo"
     /\ Len(SubroutineTypes[1].signature) = Len(ClaimedEntries(last.input.sig))) =>
        /\ SubroutineTypes[1].signature[1].ty = ClaimedEntries(last.input.sig)[1]
        /\ \A i \in 2..Len(ClaimedEntries(last.input.sig)) :
              IF target.is_like_msvc /\ ClaimsReplaced(ClaimedEntries(last.input.sig)[i])
              THEN /\ SubroutineTypes[1].signature[i].ty.sty = "TyRawPtr"
                   /\ SubroutineTypes[1].signature[i].ty.name = "const"
                   /\ ClaimedEntries(last.input.sig)[i].sty = "TyArray" =>
                         SubroutineTypes[1].signature[i].ty
                            = mk_imm_ptr(ClaimedEntries(last.input.sig)[i].elems[1])
              ELSE SubroutineTypes[1].signature[i].ty = ClaimedEntries(last.input.sig)[i]

\* a method of an inherent impl of a nominal type other than Box
InherentNominal(instance) ==
    /\ instance.impl.is_method
    /\ ~instance.impl.trait
    /\ instance.impl.self_ty.sty = "TyAdt"
    /\ instance.impl.self_ty.name # "Box"

\* C17: the scope of the subprogram is the self type's node exactly for a
\* method of an inherent impl of a nominal type other than Box, with or
\* without a lexical parent; any other function gets the namespace of its
\* lexical parent, taken from or entered into the namespace cache, and
\* without a lexical parent it ends in the fatal error with no call made.
C17_ContainingScope ==
    (Created /\ debuginfo # "NoDebugInfo" /\ ~last.input.no_debug) =>
        IF InherentNominal(last.input)
        THEN /\ last.outcome # "panic: get_containing_scope: missing parent?"
             /\ ~Made("create_namespace")
             /\ last.input.impl.self_ty \in DOMAIN type_map
             /\ last.outcome = "RegularContext" =>
                   Subprograms[1].scope =
                      [scope |-> "type", of |-> type_map[last.input.impl.self_ty]]
        ELSE IF last.input.parent = None
        THEN /\ last.outcome = "panic: get_containing_scope: missing parent?"
             /\ last.calls = <<>>
        ELSE /\ last.outcome # "panic: get_containing_scope: missing parent?"
             /\ [krate |-> last.input.krate, index |-> last.input.parent[1]]
                   \in namespace_map
             /\ last.outcome = "RegularContext" =>
                   Subprograms[1].scope =
                      [scope |-> "namespace",
                       of |-> [krate |-> last.input.krate,
                               index |-> last.input.parent[1]]]

C17_Witness ==
    /\ Created
    /\ debuginfo = "LimitedDebugInfo"
    /\ last.input.impl = TraitImpl(TyPoint)
    /\ last.outcome = "RegularContext"
    /\ Subprograms[1].scope.scope = "namespace"
    /\ Len(history) = 2
    /\ history[1].input.impl = InherentImpl(TyPoint)
    /\ history[1].input.parent = None
    /\ history[1].outcome = "RegularContext"

\* declare_local went past get_ref: the declaration was emitted
Emitted == Declares /\ last.outcome \in {"ok", "assertion failed"}
Variables == SelectSeq(last.calls, IsCreateVariable)

\* C18: the variable node of declare_local carries DW_TAG_arg_variable
\* and the given index, which is at least 1, for ArgumentVariable(index),
\* and DW_TAG_auto_variable with index 0 for LocalVariable and
\* CapturedVariable; one node per call, none when get_ref fails.
C18_TagAndIndex ==
    /\ Emitted =>
          /\ Len(Variables) = 1
          /\ IF last.input.kind.kind = "ArgumentVariable"
             THEN /\ Variables[1].tag = DW_TAG_arg_variable
                  /\ Variables[1].argument_index = last.input.kind.index
                  /\ Variables[1].argument_index >= 1
             ELSE /\ Variables[1].tag = DW_TAG_auto_variable
                  /\ Variables[1].argument_index = 0
    /\ (Declares /\ ~Emitted) => Variables = <<>>

C18_Witness ==
    /\ Emitted
    /\ last.input.kind.kind = "CapturedVariable"
    /\ Variables[1].tag = DW_TAG_auto_variable
    /\ Variables[1].argument_index = 0

\* the position of the one call of a kind among the last operation's calls
At(fn) == CHOOSE i \in CallsOf(fn) : TRUE
DeclarationLocation ==
    KnownLocation(last.input.scope_metadata, last.input.span.line, last.input.span.col)

\* C19: declare_local creates the variable node, sets the current debug
\* location to the declaration's scope, line and column, then inserts the
\* declare marker, which carries that location; after a successful call
\* the current location is unknown for ArgumentVariable and
\* CapturedVariable and the declaration's for LocalVariable.
C19_DebugLocation ==
    Emitted =>
        /\ Cardinality(CallsOf("insert_declare")) = 1
        /\ Cardinality(CallsOf("set_inst_debug_location")) = 1
        /\ \E i \in CallsOf("set_current_debug_location") :
              /\ last.calls[i].loc = DeclarationLocation
              /\ At("create_variable") < i
              /\ i < At("insert_declare")
              /\ \A j \in CallsOf("set_current_debug_location") :
                    j < At("insert_declare") => j = i
        /\ last.calls[At("insert_declare")].debug_loc = DeclarationLocation
        /\ last.calls[At("insert_declare")].variable = Variables[1]
        /\ At("insert_declare") < At("set_inst_debug_location")
        /\ last.calls[At("set_inst_debug_location")].loc = DeclarationLocation
        /\ last.outcome = "ok" =>
              debug_loc = IF last.input.kind.kind = "LocalVariable"
                          THEN DeclarationLocation
                          ELSE UnknownLocation

C19_Witness ==
    /\ Emitted
    /\ last.outcome = "ok"
    /\ last.input.kind.kind = "ArgumentVariable"
    /\ debug_loc = UnknownLocation
    /\ last.calls[At("insert_declare")].debug_loc = KnownLocation("fn_scope", 11, 5)

\* C20: declare_local on DebugInfoDisabled or FunctionWithoutDebugInfo
\* ends in span_bug for every kind and access, before any call on the
\* builder and with the file cache, the type-map and the builder's nodes
\* as they were.
C20_DeclareWithoutData ==
    /\ []((Declares /\ last.input.context.variant # "RegularContext") =>
             /\ last.outcome = "span_bug"
             /\ last.calls = <<>>
             /\ last.lookups = <<>>)
    /\ [][(last'.op = "declare_local"
            /\ last'.input.context.variant # "RegularContext"
            /\ last'.input.context = dbg_context) =>
              /\ created_files' = created_files
              /\ type_map' = type_map
              /\ di_type_nodes' = di_type_nodes
              /\ composite_types_completed' = composite_types_completed
              /\ debug_loc' = debug_loc]_vars

C20_Witness ==
    /\ Declares
    /\ last.input.context.variant = "FunctionWithoutDebugInfo"
    /\ last.input.kind.kind = "LocalVariable"
    /\ last.input.access.access = "IndirectVariable"
    /\ last.outcome = "span_bug"
    /\ last.input.variable_type \notin DOMAIN type_map

\* C21: the assertion on source_locations_enabled is the last step of
\* declare_local for ArgumentVariable and CapturedVariable: a declaration
\* rejected by it has its variable node created and its declare marker
\* inserted, the current debug location is the declaration's, and no call
\* resets it to unknown.  Only these two kinds on an enabled flag are
\* rejected.
C21_AssertionComesLast ==
    /\ (Declares /\ last.outcome = "assertion failed") =>
          /\ last.input.kind.kind \in {"ArgumentVariable", "CapturedVariable"}
          /\ last.input.context.source_locations_enabled
          /\ Len(Variables) = 1
          /\ Cardinality(CallsOf("insert_declare")) = 1
          /\ last.calls[At("insert_declare")].variable = Variables[1]
          /\ last.calls[Len(last.calls)].fn = "set_inst_debug_location"
          /\ debug_loc = DeclarationLocation
          /\ \A i \in CallsOf("set_current_debug_location") :
                last.calls[i].loc # UnknownLocation
          /\ last.input.variable_type \in DOMAIN type_map
    /\ (Declares /\ last.outcome = "ok"
          /\ last.input.kind.kind \in {"ArgumentVariable", "CapturedVariable"}) =>
          /\ last.calls[Len(last.calls)] =
                [fn |-> "set_current_debug_location", loc |-> UnknownLocation]
          /\ At("insert_declare") < Len(last.calls)

C21_Witness ==
    /\ Declares
    /\ last.outcome = "assertion failed"
    /\ last.input.kind = [kind |-> "ArgumentVariable", index |-> 1]
    /\ last.input.variable_type = TyPoint
    /\ Made("create_type")
    /\ Made("insert_declare")
    /\ debug_loc = KnownLocation("fn_scope", 11, 5)

\* C22 as claimed: under full debug info the signature is built without a
\* fatal error whatever the number of declared parameters and the calling
\* convention; a rust-call signature without a declared parameter gives a
\* list holding the return entry alone.
C22_NoUnderflowAsClaimed ==
    (Created /\ debuginfo = "FullDebugInfo"
       /\ last.outcome # "panic: get_containing_scope: missing parent?") =>
        /\ last.outcome = "RegularContext"
        /\ Len(SubroutineTypes) = 1
        /\ (last.input.sig.abi = "RustCall" /\ last.input.sig.inputs = <<>>) =>
              Len(SubroutineTypes[1].signature) = 1

====
